---- MODULE Spec2Model ----
(***************************************************************************)
(* A model of apptree (src/Sources/apptree.c): the tree of menu nodes, the *)
(* control block (struct apptree_control) and the four public operations   *)
(* apptree_init, apptree_create_node, apptree_enable, apptree_handle_input.*)
(*                                                                         *)
(* A node handle is an index into the arena `nodes`; 0 is the NULL handle. *)
(* A node's title is stood for by its handle (the picture holds handles).  *)
(* A crash of the program is a behaviour that stops: it adds no state.     *)
(***************************************************************************)
EXTENDS Integers, Sequences, FiniteSets

VARIABLES
    nodes,           \* the arena of struct apptree_node, by handle
    master,          \* control.master
    current,         \* control.current
    picture,         \* control.picture: the buffer, as long as its capacity
    picture_height,  \* control.picture_height
    frame_pos,       \* control.frame_pos
    select_pos,      \* control.select_pos
    enabled,         \* control.enabled
    keys,            \* control.keys: "NULL" or the bound key set
    io,              \* apptree_io's control: TRUE once read/write are bound
    frame_height,    \* the build's FRAME_HEIGHT (fixed for a whole behaviour)
    last,            \* what the last call gave: result, renders, callback, bad read
    run              \* the inputs just handled in a row, and where they began

vars == <<nodes, master, current, picture, picture_height, frame_pos,
          select_pos, enabled, keys, io, frame_height, last, run>>

control == <<master, current, picture, picture_height, frame_pos,
             select_pos, enabled, keys>>

----------------------------------------------------------------------------
(* Program constants and the bounds of the model *)

FRAME_HEIGHT == 18

APPTREE_MODE_SIMPLE == "SIMPLE"

APPTREE_MODE_SINGLE_SELECTION == "SINGLE_SELECTION"

APPTREE_MODE_MULTI_SELECTION == "MULTI_SELECTION"

Modes == {APPTREE_MODE_SIMPLE, APPTREE_MODE_SINGLE_SELECTION,
          APPTREE_MODE_MULTI_SELECTION}

NULL == 0

\* Nodes the arena holds at most under Spec.
MaxNodes == 3

\* Nodes the arena holds at most under SpecSetup (masters included).
MaxSetup == 3

\* Nodes the arena holds at most under SpecDeep.
MaxDeep == 4

\* Nodes the arena holds at most under SpecChain.
MaxChain == 4

\* Nodes the arena holds at most under SpecRender (one master, the rest its
\* children), and what |select_pos| stays within there.
MaxRender == 5

MaxPosRender == 4

\* Nodes the arena holds at most under SpecWindow (a master, a submenu, their
\* children), and what |select_pos| stays within there.
MaxWindow == 7

MaxPosWindow == 6

\* Nodes the arena holds at most under SpecFrame (one master, the rest its children).
MaxWide == 21

\* |select_pos| stays within this, and within MaxPosWide under SpecFrame: it
\* grows without limit only once it has left the range of the children.
MaxPos == 2

MaxPosWide == 20

\* The frame heights SpecFrame builds the program with: the header's, and the
\* height 3 of the scrolling scenario.
FrameHeights == {3, FRAME_HEIGHT}

\* struct apptree_keybindings: one set of five distinct keys.
Keys == [up |-> "u", down |-> "d", select |-> "s", back |-> "b", home |-> "h"]

\* The (mode, selected, function) a node is created with: a submenu of each
\* mode, a leaf with a callback, a leaf without one. A leaf's mode and a
\* submenu's callback are never read.
NodeKinds ==
    {[mode |-> m, selected |-> FALSE, function |-> FALSE] : m \in Modes}
    \cup {[mode |-> APPTREE_MODE_SIMPLE, selected |-> s, function |-> f] :
              s, f \in BOOLEAN}

\* What apptree_read can deliver: a bound key, another character, or nothing.
Inputs == {"u", "d", "s", "b", "h", "x", "none"}

----------------------------------------------------------------------------
(* Helpers *)

Handles == 1..Len(nodes)

Max(a, b) == IF a >= b THEN a ELSE b

\* The last call: the operation; its argument (the parent handle given to
\* apptree_create_node, the input apptree_read delivered, "none" otherwise);
\* its result (0 or -1; a handler's is that of apptree_handle_input); the
\* number of times it printed the menu; the arguments it called a node's
\* callback with (<<>>: it called none); and whether it read a child or a
\* picture entry that does not exist. seen: the selected flags of the active
\* node's children as they were when the callback ran; failed: the realloc of
\* the picture the call made returned NULL.
Last(op, arg, ret, renders, called, ub) ==
    [op |-> op, arg |-> arg, ret |-> ret, renders |-> renders,
     called |-> called, ub |-> ub, seen |-> <<>>, failed |-> FALSE]

\* The selected flags of the children of p in the arena ns, in order.
SelectedFlags(ns, p) ==
    [k \in 1..Len(ns[p].children) |-> ns[ns[p].children[k]].selected]

\* calloc'ed node as apptree_create_master fills it
MasterNode(mode) ==
    [parent |-> NULL, mode |-> mode, children |-> <<>>, num_child |-> 0,
     selected |-> FALSE, end |-> FALSE, function |-> FALSE]

\* list_travese_to_index + container_of: the child of p at index i. An index
\* outside 0..num_child-1 walks off the list: what it yields is not defined;
\* it is any child of p, or no node at all (NULL).
ChildInRange(p, i) == 0 <= i /\ i < nodes[p].num_child

ChildAt(p, i) ==
    IF ChildInRange(p, i)
    THEN {nodes[p].children[i + 1]}
    ELSE {nodes[p].children[k] : k \in 1..Len(nodes[p].children)} \cup {NULL}

\* The inputs just handled in a row: the key, the active node, select_pos and
\* frame_pos before the first of them, how many they are, and (select) the
\* selected flag the child under the cursor had before the first. NoRun: the
\* last call handled no up, down, select, back or home input that acted.
NoRun == [key |-> "none", node |-> NULL, sel |-> 0, frame |-> 0, len |-> 0,
          flag |-> FALSE]

\* The run that begins with the input `key` handled in the current state.
RunFrom(key, flag) ==
    [key |-> key, node |-> current, sel |-> select_pos, frame |-> frame_pos,
     len |-> 1, flag |-> flag]

\* The run after an up or down input `key` handled in the state (sp, fp, ph):
\* it extends a run of the same key (of at most ph inputs) or begins one at
\* (sp, fp).
RunAfter(key, sp, fp, ph) ==
    IF run.key = key /\ run.len < ph
    THEN [run EXCEPT !.len = @ + 1]
    ELSE RunFrom(key, FALSE)

\* The run after a select input on the leaf `child`: the second of two selects
\* in a row on it, or the first.
SelectRun(child) ==
    IF run.key = Keys.select /\ run.node = current /\ run.len < 2
    THEN [run EXCEPT !.len = @ + 1]
    ELSE RunFrom(Keys.select, nodes[child].selected)

----------------------------------------------------------------------------
(* Setup: apptree_init, apptree_create_node, apptree_enable *)

\* apptree_init(master, title, master_mode, key, read_input, write_output).
\* key_ok, io_ok: the pointers given are not NULL; alloc_ok: calloc succeeds.
apptree_init(master_mode, key_ok, io_ok, alloc_ok) ==
    LET bound == io_ok /\ key_ok                    \* apptree_bind_keys ran and succeeded
        ok    == bound /\ alloc_ok                  \* apptree_create_master succeeded
        new   == Len(nodes) + 1
    IN  /\ keys' = IF bound THEN "K" ELSE keys
        /\ nodes' = IF ok THEN Append(nodes, MasterNode(master_mode)) ELSE nodes
        /\ io' = IF ok THEN TRUE ELSE io
        /\ master' = IF ok THEN new ELSE master
        /\ current' = IF ok THEN new ELSE current
        /\ picture' = IF ok THEN <<>> ELSE picture
        /\ picture_height' = IF ok THEN 0 ELSE picture_height
        /\ frame_pos' = IF ok THEN 0 ELSE frame_pos
        /\ select_pos' = IF ok THEN 0 ELSE select_pos
        /\ enabled' = IF ok THEN FALSE ELSE enabled
        /\ last' = Last("init", "none", IF ok THEN 0 ELSE -1, 0, <<>>, FALSE)
        /\ run' = NoRun
        /\ UNCHANGED frame_height

\* The do-while of apptree_validate_node, entered with node = block: it steps
\* to the parent first, then on while that node has a parent.
RECURSIVE AncestorWalk(_)
AncestorWalk(node) ==
    IF nodes[node].parent # NULL THEN AncestorWalk(nodes[node].parent) ELSE node

\* Mutant: the walk's end is not compared with the master.
validate_node_NoCompare(parent) ==
    IF AncestorWalk(parent) = NULL THEN -1 ELSE 0

\* apptree_validate_node(block), block being a fresh node whose parent is `parent`.
apptree_validate_node(parent) ==
    IF AncestorWalk(parent) # master THEN -1 ELSE 0

\* Mutant: only a Single Selection parent makes its children end nodes.
EndFlag_SingleOnly(parent) == nodes[parent].mode = APPTREE_MODE_SINGLE_SELECTION

\* The end flag apptree_create_node gives a node under `parent`.
EndFlag(parent) == nodes[parent].mode # APPTREE_MODE_SIMPLE

\* Mutant: the enabled flag is not looked at.
CreateResult_NoFreeze(parent, alloc_ok) ==
    IF nodes[parent].end THEN -1
    ELSE IF ~alloc_ok THEN -1
    ELSE IF AncestorWalk(parent) # master THEN -1
    ELSE 0

\* The result of apptree_create_node.
CreateResult(parent, alloc_ok) ==
    IF enabled THEN -1
    ELSE IF nodes[parent].end THEN -1
    ELSE IF ~alloc_ok THEN -1
    ELSE IF apptree_validate_node(parent) # 0 THEN -1
    ELSE 0

\* apptree_create_node(new_node, parent, title, info, mode, selected, function).
\* parent: any handle the caller holds; function: whether a callback is given.
apptree_create_node(parent, mode, selected, function, alloc_ok) ==
    LET ret == CreateResult(parent, alloc_ok)
        new == Len(nodes) + 1
        node == [parent |-> parent, mode |-> mode, children |-> <<>>,
                 num_child |-> 0, selected |-> selected, end |-> EndFlag(parent),
                 function |-> function]
    IN  /\ nodes' = IF ret = 0
                    THEN Append([nodes EXCEPT ![parent].children = Append(@, new),
                                              ![parent].num_child = @ + 1], node)
                    ELSE nodes
        /\ last' = Last("create_node", parent, ret, 0, <<>>, FALSE)
        /\ run' = NoRun
        /\ UNCHANGED <<control, io, frame_height>>

\* apptree_resize_picture: realloc to picture_height entries; on failure the
\* buffer stays as it is (the callers ignore the result).
apptree_resize_picture(pic, ph, alloc_ok) ==
    IF alloc_ok
    THEN [i \in 1..ph |-> IF i <= Len(pic) THEN pic[i] ELSE NULL]
    ELSE pic

\* apptree_populate_picture: the titles of cur's children, written into the
\* buffer as far as it reaches.
apptree_populate_picture(pic, cur) ==
    [i \in 1..Len(pic) |->
        IF i <= nodes[cur].num_child THEN nodes[cur].children[i] ELSE pic[i]]

\* The picture after resize and populate for the node cur.
PictureFor(cur, alloc_ok) ==
    apptree_populate_picture(
        apptree_resize_picture(picture, nodes[cur].num_child, alloc_ok), cur)

\* The picture indices apptree_print_frame reads.
FrameRows(ph, fp) ==
    IF ph <= frame_height THEN fp..(ph - 1) ELSE fp..(fp + frame_height - 1)

\* The child indices apptree_print_frame hands to apptree_print_selected.
MarkerRows(ph, fp) ==
    IF ph <= frame_height THEN {fp + i : i \in fp..(ph - 1)} ELSE {}

\* apptree_print_menu in the state given reads outside the picture or looks up
\* a child that does not exist (apptree_print_frame, apptree_print_info), or
\* apptree_populate_picture wrote past the buffer.
PrintUB(cur, pic, ph, fp, sp) ==
    \/ \E i \in FrameRows(ph, fp) : ~(0 <= i /\ i < Len(pic))
    \/ \E i \in MarkerRows(ph, fp) \cup {sp} : ~ChildInRange(cur, i)
    \/ nodes[cur].num_child > Len(pic)

\* apptree_print_selected(parent, child_index): what it prints. The flag of a
\* child that does not exist is not defined.
apptree_print_selected(parent, child_index) ==
    IF nodes[parent].mode = APPTREE_MODE_SIMPLE THEN "none"
    ELSE IF ~ChildInRange(parent, child_index) THEN "undefined"
    ELSE IF nodes[nodes[parent].children[child_index + 1]].selected THEN "[*]"
    ELSE "[ ]"

\* A line of apptree_print_frame for picture index i: the arrow of
\* apptree_print_select, the marker, the number and the title.
ChildRow(pic, i, sp, marker) ==
    [row |-> "child", index |-> i, arrow |-> (i = sp), marker |-> marker,
     title |-> IF 0 <= i /\ i < Len(pic) THEN pic[i + 1] ELSE "undefined"]

\* A line of apptree_print_frame that pads the frame.
BlankRow == [row |-> "blank"]

\* apptree_print_frame: the lines it prints, in order.
apptree_print_frame(cur, pic, ph, fp, sp) ==
    IF ph <= frame_height
    THEN LET n      == IF ph > fp THEN ph - fp ELSE 0
             i      == IF ph > fp THEN ph ELSE fp
             blanks == IF frame_height > i THEN frame_height - i ELSE 0
         IN  [k \in 1..n |->
                 ChildRow(pic, fp + k - 1, sp,
                          apptree_print_selected(cur, fp + (fp + k - 1)))]
             \o [k \in 1..blanks |-> BlankRow]
    ELSE [k \in 1..frame_height |-> ChildRow(pic, fp + k - 1, sp, "none")]

\* apptree_enable(void)
apptree_enable(alloc_ok) ==
    LET ok  == master # NULL /\ keys # "NULL"
        pic == IF ok THEN PictureFor(master, alloc_ok) ELSE picture
        ph  == IF ok THEN nodes[master].num_child ELSE picture_height
    IN  /\ current' = IF ok THEN master ELSE current
        /\ picture_height' = ph
        /\ enabled' = IF ok THEN TRUE ELSE enabled
        /\ picture' = pic
        /\ last' = IF ok
                   THEN [Last("enable", "none", 0, 1, <<>>,
                              PrintUB(master, pic, ph, frame_pos, select_pos))
                            EXCEPT !.failed = ~alloc_ok]
                   ELSE Last("enable", "none", -1, 0, <<>>, FALSE)
        /\ run' = NoRun
        /\ UNCHANGED <<nodes, master, frame_pos, select_pos, keys, io, frame_height>>

----------------------------------------------------------------------------
(* Input handling *)

\* apptree_increase_select_pos: the new select_pos.
apptree_increase_select_pos(sp, ph) ==
    IF sp = ph - 1 THEN 0 ELSE sp + 1

\* apptree_decrease_select_pos: the new select_pos.
apptree_decrease_select_pos(sp, ph) ==
    IF sp = 0 THEN ph - 1 ELSE sp - 1

\* Mutant: the frame scrolls down one input late (> for >=).
adjust_frame_pos_Late(sp, fp, ph) ==
    IF sp = 0 THEN 0
    ELSE IF sp = ph - 1
         THEN (IF ph - frame_height < 0 THEN 0 ELSE ph - frame_height)
    ELSE IF sp > fp + frame_height THEN fp + 1
    ELSE IF sp < fp THEN fp - 1
    ELSE fp

\* apptree_adjust_frame_pos: the new frame_pos, from the new select_pos.
apptree_adjust_frame_pos(sp, fp, ph) ==
    IF sp = 0 THEN 0
    ELSE IF sp = ph - 1
         THEN (IF ph - frame_height < 0 THEN 0 ELSE ph - frame_height)
    ELSE IF sp >= fp + frame_height THEN fp + 1
    ELSE IF sp < fp THEN fp - 1
    ELSE fp

\* The loop of apptree_update_selected for a Single Selection parent, from
\* index i on.
RECURSIVE SweepSelected(_, _, _, _)
SweepSelected(ns, parent, i, child_index) ==
    IF i < ns[parent].num_child
    THEN SweepSelected(
             [ns EXCEPT ![ns[parent].children[i + 1]].selected = (i = child_index)],
             parent, i + 1, child_index)
    ELSE ns

\* Mutant: a Single Selection parent only sets the flag of the selected child.
update_selected_NoSweep(parent, child_index, child) ==
    IF nodes[parent].mode = APPTREE_MODE_SINGLE_SELECTION
    THEN [nodes EXCEPT ![child].selected = TRUE]
    ELSE IF nodes[parent].mode = APPTREE_MODE_MULTI_SELECTION
    THEN [nodes EXCEPT ![child].selected = ~@]
    ELSE nodes

\* Mutant: a Simple parent inverts the flag of the selected child, too.
update_selected_SimpleToo(parent, child_index, child) ==
    IF nodes[parent].mode = APPTREE_MODE_SINGLE_SELECTION
    THEN SweepSelected(nodes, parent, 0, child_index)
    ELSE [nodes EXCEPT ![child].selected = ~@]

\* Mutant: a Multi Selection parent sets the flag of the selected child.
update_selected_NoToggle(parent, child_index, child) ==
    IF nodes[parent].mode = APPTREE_MODE_SINGLE_SELECTION
    THEN SweepSelected(nodes, parent, 0, child_index)
    ELSE IF nodes[parent].mode = APPTREE_MODE_MULTI_SELECTION
    THEN [nodes EXCEPT ![child].selected = TRUE]
    ELSE nodes

\* apptree_update_selected(parent, child_index): the arena afterwards. child is
\* the node the lookup of child_index in parent yields.
apptree_update_selected(parent, child_index, child) ==
    IF nodes[parent].mode = APPTREE_MODE_SINGLE_SELECTION
    THEN SweepSelected(nodes, parent, 0, child_index)
    ELSE IF nodes[parent].mode = APPTREE_MODE_MULTI_SELECTION
    THEN [nodes EXCEPT ![child].selected = ~@]
    ELSE nodes

\* apptree_handle_up_input and apptree_handle_down_input: key is up or down.
HandleMove(key) ==
    LET sp == IF key = Keys.up
              THEN apptree_decrease_select_pos(select_pos, picture_height)
              ELSE apptree_increase_select_pos(select_pos, picture_height)
        fp == apptree_adjust_frame_pos(sp, frame_pos, picture_height)
    IN  /\ select_pos' = sp
        /\ frame_pos' = fp
        /\ last' = Last("handle_input", key, 0, 1, <<>>,
                        PrintUB(current, picture, picture_height, fp, sp))
        /\ run' = RunAfter(key, select_pos, frame_pos, picture_height)
        /\ UNCHANGED <<nodes, master, current, picture, picture_height, enabled>>

\* Mutant: entering a node leaves select_pos as it is.
EnterNode_KeepCursor(node, key, alloc_ok) ==
    LET pic == PictureFor(node, alloc_ok)
    IN  /\ current' = node
        /\ picture_height' = nodes[node].num_child
        /\ frame_pos' = 0
        /\ picture' = pic
        /\ last' = [Last("handle_input", key, 0, 1, <<>>,
                         PrintUB(node, pic, nodes[node].num_child, 0, select_pos))
                       EXCEPT !.failed = ~alloc_ok]
        /\ run' = RunFrom(key, FALSE)
        /\ UNCHANGED <<nodes, master, enabled, select_pos>>

\* The eight lines shared by the descend branch of apptree_handle_select_input,
\* apptree_handle_back_input and apptree_handle_home_input: node becomes current.
EnterNode(node, key, alloc_ok) ==
    LET pic == PictureFor(node, alloc_ok)
    IN  /\ current' = node
        /\ picture_height' = nodes[node].num_child
        /\ frame_pos' = 0
        /\ select_pos' = 0
        /\ picture' = pic
        /\ last' = [Last("handle_input", key, 0, 1, <<>>,
                         PrintUB(node, pic, nodes[node].num_child, 0, 0))
                       EXCEPT !.failed = ~alloc_ok]
        /\ run' = RunFrom(key, FALSE)
        /\ UNCHANGED <<nodes, master, enabled>>

\* A handler that returns without doing anything.
HandleNothing(key, ub) ==
    /\ last' = Last("handle_input", key, 0, 0, <<>>, ub)
    /\ run' = NoRun
    /\ UNCHANGED <<nodes, control>>

\* Mutant: the flags are updated and the menu printed whether or not the child
\* has a callback.
handle_select_input_Always(alloc_ok) ==
    \E child \in ChildAt(current, select_pos) :
        IF child = NULL
        THEN HandleNothing(Keys.select, TRUE)
        ELSE IF nodes[child].num_child > 0
        THEN EnterNode(child, Keys.select, alloc_ok)
        ELSE /\ nodes' = apptree_update_selected(current, select_pos, child)
             /\ last' = [Last("handle_input", Keys.select, 0, 1,
                              IF nodes[child].function
                              THEN <<current, select_pos>> ELSE <<>>,
                              \/ ~ChildInRange(current, select_pos)
                              \/ PrintUB(current, picture, picture_height,
                                         frame_pos, select_pos))
                            EXCEPT !.seen = SelectedFlags(nodes, current)]
             /\ run' = SelectRun(child)
             /\ UNCHANGED control

\* Mutant: the flags are updated before the callback runs.
handle_select_input_UpdateFirst(alloc_ok) ==
    \E child \in ChildAt(current, select_pos) :
        IF child = NULL
        THEN HandleNothing(Keys.select, TRUE)
        ELSE IF nodes[child].num_child > 0
        THEN EnterNode(child, Keys.select, alloc_ok)
        ELSE IF nodes[child].function
        THEN /\ nodes' = apptree_update_selected(current, select_pos, child)
             /\ last' = [Last("handle_input", Keys.select, 0, 1,
                              <<current, select_pos>>,
                              \/ ~ChildInRange(current, select_pos)
                              \/ PrintUB(current, picture, picture_height,
                                         frame_pos, select_pos))
                            EXCEPT !.seen = SelectedFlags(nodes', current)]
             /\ run' = SelectRun(child)
             /\ UNCHANGED control
        ELSE /\ last' = Last("handle_input", Keys.select, 0, 0, <<>>,
                             ~ChildInRange(current, select_pos))
             /\ run' = SelectRun(child)
             /\ UNCHANGED <<nodes, control>>

\* apptree_handle_select_input
apptree_handle_select_input(alloc_ok) ==
    \E child \in ChildAt(current, select_pos) :
        IF child = NULL
        THEN \* no node under the cursor: what is read is not a node
             HandleNothing(Keys.select, TRUE)
        ELSE IF nodes[child].num_child > 0
        THEN EnterNode(child, Keys.select, alloc_ok)
        ELSE IF nodes[child].function
        THEN \* the callback runs, then the flags are updated
             /\ nodes' = apptree_update_selected(current, select_pos, child)
             /\ last' = [Last("handle_input", Keys.select, 0, 1,
                              <<current, select_pos>>,
                              \/ ~ChildInRange(current, select_pos)
                              \/ PrintUB(current, picture, picture_height,
                                         frame_pos, select_pos))
                            EXCEPT !.seen = SelectedFlags(nodes, current)]
             /\ run' = SelectRun(child)
             /\ UNCHANGED control
        ELSE /\ last' = Last("handle_input", Keys.select, 0, 0, <<>>,
                             ~ChildInRange(current, select_pos))
             /\ run' = SelectRun(child)
             /\ UNCHANGED <<nodes, control>>

\* Mutant: back enters the master.
handle_back_input_ToMaster(alloc_ok) ==
    IF current = master
    THEN HandleNothing(Keys.back, FALSE)
    ELSE EnterNode(master, Keys.back, alloc_ok)

\* apptree_handle_back_input
apptree_handle_back_input(alloc_ok) ==
    IF current = master
    THEN HandleNothing(Keys.back, FALSE)
    ELSE EnterNode(nodes[current].parent, Keys.back, alloc_ok)

\* Mutant: home enters the parent.
handle_home_input_ToParent(alloc_ok) ==
    IF current = master
    THEN HandleNothing(Keys.home, FALSE)
    ELSE EnterNode(nodes[current].parent, Keys.home, alloc_ok)

\* apptree_handle_home_input
apptree_handle_home_input(alloc_ok) ==
    IF current = master
    THEN HandleNothing(Keys.home, FALSE)
    ELSE EnterNode(master, Keys.home, alloc_ok)

\* Mutant: the result of apptree_read is not looked at.
handle_input_NoInputCheck(input, alloc_ok) ==
    IF ~enabled
    THEN /\ last' = Last("handle_input", "none", -1, 0, <<>>, FALSE)
         /\ run' = NoRun
         /\ UNCHANGED <<nodes, control, io, frame_height>>
    ELSE /\ IF input = Keys.up \/ input = Keys.down THEN HandleMove(input)
            ELSE IF input = Keys.select THEN apptree_handle_select_input(alloc_ok)
            ELSE IF input = Keys.back THEN apptree_handle_back_input(alloc_ok)
            ELSE IF input = Keys.home THEN apptree_handle_home_input(alloc_ok)
            ELSE HandleNothing(input, FALSE)
         /\ UNCHANGED <<keys, io, frame_height>>

\* Mutant: an input that is no bound key prints the menu.
handle_input_RenderUnknown(input, alloc_ok) ==
    IF ~enabled \/ input = "none"
    THEN /\ last' = Last("handle_input", "none", -1, 0, <<>>, FALSE)
         /\ run' = NoRun
         /\ UNCHANGED <<nodes, control, io, frame_height>>
    ELSE /\ IF input = Keys.up \/ input = Keys.down THEN HandleMove(input)
            ELSE IF input = Keys.select THEN apptree_handle_select_input(alloc_ok)
            ELSE IF input = Keys.back THEN apptree_handle_back_input(alloc_ok)
            ELSE IF input = Keys.home THEN apptree_handle_home_input(alloc_ok)
            ELSE /\ last' = Last("handle_input", input, 0, 1, <<>>, FALSE)
                 /\ run' = NoRun
                 /\ UNCHANGED <<nodes, control>>
         /\ UNCHANGED <<keys, io, frame_height>>

\* apptree_handle_input(void). input: what apptree_read delivers ("none": it
\* returns -1); alloc_ok: whether a realloc made while handling succeeds.
apptree_handle_input(input, alloc_ok) ==
    IF ~enabled \/ input = "none"
    THEN /\ last' = Last("handle_input", "none", -1, 0, <<>>, FALSE)
         /\ run' = NoRun
         /\ UNCHANGED <<nodes, control, io, frame_height>>
    ELSE /\ IF input = Keys.up \/ input = Keys.down THEN HandleMove(input)
            ELSE IF input = Keys.select THEN apptree_handle_select_input(alloc_ok)
            ELSE IF input = Keys.back THEN apptree_handle_back_input(alloc_ok)
            ELSE IF input = Keys.home THEN apptree_handle_home_input(alloc_ok)
            ELSE HandleNothing(input, FALSE)
         /\ UNCHANGED <<keys, io, frame_height>>

----------------------------------------------------------------------------
(* Specifications *)

\* Before apptree_init: the static control blocks are zero.
InitControl ==
    /\ nodes = <<>>
    /\ master = NULL
    /\ current = NULL
    /\ picture = <<>>
    /\ picture_height = 0
    /\ frame_pos = 0
    /\ select_pos = 0
    /\ enabled = FALSE
    /\ keys = "NULL"
    /\ io = FALSE
    /\ last = Last("none", "none", 0, 0, <<>>, FALSE)
    /\ run = NoRun

Init ==
    /\ InitControl
    /\ frame_height = FRAME_HEIGHT

\* The arguments a call reads: a failing apptree_init reads no mode, a failing
\* apptree_create_node no mode, selected or function.
InitModes(ok) == IF ok THEN Modes ELSE {APPTREE_MODE_SIMPLE}

CreateKinds(parent, alloc_ok) ==
    IF CreateResult(parent, alloc_ok) = 0
    THEN NodeKinds
    ELSE {[mode |-> APPTREE_MODE_SIMPLE, selected |-> FALSE, function |-> FALSE]}

\* The bounds of a specification: the arena has room for a node that a call
\* allocates and keeps, and select_pos stays within max_pos.
Room(cap) == Len(nodes) < cap

Within(max_pos) == -max_pos <= select_pos' /\ select_pos' <= max_pos

\* Any call, with at most cap nodes. A pointer given to apptree_init may be
\* NULL and calloc may fail. again: apptree_init is also called once a master
\* is installed; oks: what a realloc of the picture can do (TRUE: it succeeds).
NextWith(cap, again, oks) ==
    \/ \E key_ok, io_ok, alloc_ok \in BOOLEAN :
       \E mode \in InitModes(key_ok /\ io_ok /\ alloc_ok) :
           /\ again \/ master = NULL
           /\ (key_ok /\ io_ok /\ alloc_ok) => Room(cap)
           /\ apptree_init(mode, key_ok, io_ok, alloc_ok)
    \/ \E parent \in Handles, alloc_ok \in BOOLEAN :
       \E kind \in CreateKinds(parent, alloc_ok) :
           /\ CreateResult(parent, alloc_ok) = 0 => Room(cap)
           /\ apptree_create_node(parent, kind.mode, kind.selected, kind.function,
                                  alloc_ok)
    \/ \E alloc_ok \in oks : apptree_enable(alloc_ok)
    \/ \E input \in Inputs, alloc_ok \in oks :
           /\ apptree_handle_input(input, alloc_ok)
           /\ Within(MaxPos)

\* One apptree_init installs the master (its documented use); the picture is
\* always resized.
Next == NextWith(MaxNodes, FALSE, {TRUE})

Spec == Init /\ [][Next]_vars

\* As Spec, with one node more.
NextDeep == NextWith(MaxDeep, FALSE, {TRUE})

SpecDeep == Init /\ [][NextDeep]_vars

\* apptree_init is called again at any time.
NextSetup == NextWith(MaxSetup, TRUE, {TRUE})

SpecSetup == Init /\ [][NextSetup]_vars

\* As Spec, and a realloc of the picture may fail.
NextAlloc == NextWith(MaxNodes, FALSE, BOOLEAN)

SpecAlloc == Init /\ [][NextAlloc]_vars

\* The program built with each frame height, one level of plain children
\* under one master: wide enough for the frame to scroll.
InitFrame ==
    /\ InitControl
    /\ frame_height \in FrameHeights

NextFrame ==
    \/ \E key_ok, io_ok, alloc_ok \in BOOLEAN :
           /\ master = NULL
           /\ apptree_init(APPTREE_MODE_SIMPLE, key_ok, io_ok, alloc_ok)
    \/ \E alloc_ok \in BOOLEAN :
           /\ master # NULL
           /\ CreateResult(master, alloc_ok) = 0 => Room(MaxWide)
           /\ apptree_create_node(master, APPTREE_MODE_SIMPLE, FALSE, FALSE, alloc_ok)
    \/ apptree_enable(TRUE)
    \/ \E input \in Inputs :
           /\ apptree_handle_input(input, TRUE)
           /\ Within(MaxPosWide)

SpecFrame == InitFrame /\ [][NextFrame]_vars

\* The program built with each frame height, one level of children, selected
\* or not, under a master of any mode.
NextRender ==
    \/ \E key_ok, io_ok, alloc_ok \in BOOLEAN :
       \E mode \in InitModes(key_ok /\ io_ok /\ alloc_ok) :
           /\ master = NULL
           /\ apptree_init(mode, key_ok, io_ok, alloc_ok)
    \/ \E selected \in BOOLEAN :
           /\ master # NULL
           /\ CreateResult(master, TRUE) = 0 => Room(MaxRender)
           /\ apptree_create_node(master, APPTREE_MODE_SIMPLE, selected, TRUE, TRUE)
    \/ apptree_enable(TRUE)
    \/ \E input \in Inputs :
           /\ apptree_handle_input(input, TRUE)
           /\ Within(MaxPosRender)

SpecRender == InitFrame /\ [][NextRender]_vars

\* The program built with each frame height, two levels: children with a
\* callback under the master and under the master's first child.
NextWindow ==
    \/ \E key_ok, io_ok, alloc_ok \in BOOLEAN :
           /\ master = NULL
           /\ apptree_init(APPTREE_MODE_SIMPLE, key_ok, io_ok, alloc_ok)
    \/ \E parent \in {master, master + 1} \cap Handles :
           /\ CreateResult(parent, TRUE) = 0 => Room(MaxWindow)
           /\ apptree_create_node(parent, APPTREE_MODE_SIMPLE, FALSE, TRUE, TRUE)
    \/ apptree_enable(TRUE)
    \/ \E input \in Inputs :
           /\ apptree_handle_input(input, TRUE)
           /\ Within(MaxPosWindow)

SpecWindow == InitFrame /\ [][NextWindow]_vars

\* The nodes SpecChain creates: plain ones, with a callback and selected or
\* with neither; each can be given children.
ChainKinds ==
    {[mode |-> APPTREE_MODE_SIMPLE, selected |-> b, function |-> b] : b \in BOOLEAN}

\* Menus of several levels under a Simple master.
NextChain ==
    \/ \E key_ok, io_ok, alloc_ok \in BOOLEAN :
           /\ master = NULL
           /\ apptree_init(APPTREE_MODE_SIMPLE, key_ok, io_ok, alloc_ok)
    \/ \E parent \in Handles, kind \in ChainKinds :
           /\ CreateResult(parent, TRUE) = 0 => Room(MaxChain)
           /\ apptree_create_node(parent, kind.mode, kind.selected, kind.function,
                                  TRUE)
    \/ apptree_enable(TRUE)
    \/ \E input \in Inputs :
           /\ apptree_handle_input(input, TRUE)
           /\ Within(MaxPos)

SpecChain == Init /\ [][NextChain]_vars

----------------------------------------------------------------------------
(* Claims *)

\* The last call was apptree_create_node, made in the state before the step.
CreateCalled == last'.op = "create_node"

\* The children of node n, as handles.
ChildrenOf(n) == {nodes[n].children[k] : k \in 1..Len(nodes[n].children)}

\* C1: once apptree_enable has succeeded (control.enabled is set), every call
\* of apptree_create_node returns -1 and leaves the arena as it is: no node is
\* added and no child list or child count changes.
C1_FrozenAfterEnable ==
    [][(enabled /\ CreateCalled) => (last'.ret = -1 /\ nodes' = nodes)]_vars

\* C1 witness: apptree_create_node was called on a parent that is not an end
\* node while enabled, and failed.
C1_Witness ==
    /\ enabled
    /\ last.op = "create_node" /\ last.ret = -1
    /\ ~nodes[last.arg].end
    /\ AncestorWalk(last.arg) = master

\* C2: a created node is an end node exactly if its parent's mode is not
\* Simple; apptree_create_node on an end node fails and changes nothing; so an
\* end node never has a child.
C2_EndNodes ==
    /\ [](\A n \in Handles :
            /\ nodes[n].parent # NULL =>
                 (nodes[n].end <=> nodes[nodes[n].parent].mode # APPTREE_MODE_SIMPLE)
            /\ nodes[n].end => (nodes[n].num_child = 0 /\ nodes[n].children = <<>>))
    /\ [][(CreateCalled /\ nodes[last'.arg].end)
            => (last'.ret = -1 /\ nodes' = nodes)]_vars

\* C2 witness: before apptree_enable, apptree_create_node was called on an end
\* node under a Multi Selection parent, and failed.
C2_Witness ==
    /\ ~enabled
    /\ last.op = "create_node" /\ last.ret = -1
    /\ nodes[last.arg].end
    /\ nodes[nodes[last.arg].parent].mode = APPTREE_MODE_MULTI_SELECTION

\* C3: apptree_create_node on a parent whose ancestor chain does not end at the
\* master returns -1 and changes no node; so every node created since the
\* master was installed is in its parent's child list and has the master as
\* its ultimate ancestor.
C3_AttachedToMaster ==
    /\ [][(CreateCalled /\ AncestorWalk(last'.arg) # master)
            => (last'.ret = -1 /\ nodes' = nodes)]_vars
    /\ [](\A n \in Handles :
            n > master => /\ AncestorWalk(n) = master
                          /\ n \in ChildrenOf(nodes[n].parent))

\* C3 witness: before apptree_enable, apptree_create_node was called on a node
\* of an earlier tree (not an end node), and failed.
C3_Witness ==
    /\ ~enabled
    /\ last.op = "create_node" /\ last.ret = -1
    /\ ~nodes[last.arg].end
    /\ AncestorWalk(last.arg) # master

\* The child count of the active node.
ChildCount == nodes[current].num_child

\* The step handles the input key.
InputHandled(key) == last'.op = "handle_input" /\ last'.arg = key

\* C4: apptree_enable fails without a master or without key bindings; when it
\* succeeds, in whatever state it is called, the engine is enabled, the master
\* is the active node, select_pos and frame_pos are 0 and the menu was printed
\* once.
C4_EnableEntersRoot ==
    last.op = "enable" =>
        /\ (master = NULL \/ keys = "NULL") => last.ret = -1
        /\ last.ret = 0 =>
             /\ enabled
             /\ current = master
             /\ select_pos = 0
             /\ frame_pos = 0
             /\ last.renders = 1

\* C5: while enabled with an active node that has children, select_pos is an
\* index of a child; a down input makes it (select_pos + 1) mod the child count
\* and an up input (select_pos - 1) mod the child count.
C5_CursorInRange ==
    (enabled /\ ChildCount > 0) =>
        /\ 0 <= select_pos /\ select_pos < ChildCount
        /\ (run.key = Keys.down /\ run.len = 1) =>
               select_pos = (run.sel + 1) % ChildCount
        /\ (run.key = Keys.up /\ run.len = 1) =>
               select_pos = (run.sel - 1) % ChildCount

\* C6: while enabled, after as many down inputs in a row as the active node has
\* children, select_pos is what it was before them; the same for up inputs.
C6_WrapAround ==
    (enabled /\ run.key \in {Keys.up, Keys.down} /\ run.len = ChildCount) =>
        select_pos = run.sel

\* C7: while enabled, 0 <= frame_pos <= max(0, child count - FRAME_HEIGHT); so
\* frame_pos is 0 when the children fit the frame.
C7_FrameInBounds ==
    enabled =>
        /\ 0 <= frame_pos
        /\ frame_pos <= Max(0, ChildCount - frame_height)

\* The reframe policy, in its order: snap to the top, snap to the bottom,
\* scroll down one row, scroll up one row, else stay.
ReframePolicy(cursor, frame_start, child_count) ==
    IF cursor = 0 THEN 0
    ELSE IF cursor = child_count - 1 THEN Max(0, child_count - frame_height)
    ELSE IF cursor >= frame_start + frame_height THEN frame_start + 1
    ELSE IF cursor < frame_start THEN frame_start - 1
    ELSE frame_start

\* C8: after an up or a down input, frame_pos is the reframe policy applied to
\* the new select_pos and the old frame_pos. With 5 children and a frame height
\* of 3, from select_pos 0 and frame_pos 0: three downs give (3, 1), a fourth
\* (4, 2), a fifth (0, 0).
C8_Reframe ==
    /\ [][(enabled /\ (InputHandled(Keys.up) \/ InputHandled(Keys.down)))
            => frame_pos' = ReframePolicy(select_pos', frame_pos, ChildCount)]_vars
    /\ []((/\ enabled /\ frame_height = 3 /\ ChildCount = 5
           /\ run.key = Keys.down /\ run.sel = 0 /\ run.frame = 0)
          => /\ run.len = 3 => (select_pos = 3 /\ frame_pos = 1)
             /\ run.len = 4 => (select_pos = 4 /\ frame_pos = 2)
             /\ run.len = 5 => (select_pos = 0 /\ frame_pos = 0))

\* C8 witness: the fourth down of the scenario has been handled.
C8_Witness ==
    /\ enabled /\ frame_height = 3 /\ ChildCount = 5
    /\ run = [key |-> Keys.down, node |-> master, sel |-> 0, frame |-> 0,
              len |-> 4, flag |-> FALSE]
    /\ select_pos = 4 /\ frame_pos = 2

\* After the step, of the children of the active node exactly the one at
\* select_pos is selected.
OnlyCursorChildSelected ==
    \A k \in 0..(ChildCount - 1) :
        nodes'[nodes[current].children[k + 1]].selected = (k = select_pos)

\* A select input is handled with a Single Selection active node and
\* select_pos on one of its children.
ExclusiveSelect ==
    /\ enabled
    /\ nodes[current].mode = APPTREE_MODE_SINGLE_SELECTION
    /\ ChildInRange(current, select_pos)
    /\ InputHandled(Keys.select)

\* C9 as claimed: a select input with a Single Selection active node and
\* select_pos on child i leaves child i selected and every sibling not.
C9_ExclusiveSelect_Original ==
    [][ExclusiveSelect => OnlyCursorChildSelected]_vars

\* C9 amended: the same, when child i has a callback.
C9_ExclusiveSelect ==
    [][(ExclusiveSelect /\ nodes[nodes[current].children[select_pos + 1]].function)
         => OnlyCursorChildSelected]_vars

\* C9 witness: a select on the last of at least two children of a Single
\* Selection node called its callback; it alone is selected.
C9_Witness ==
    /\ enabled
    /\ nodes[current].mode = APPTREE_MODE_SINGLE_SELECTION
    /\ last.op = "handle_input" /\ last.arg = Keys.select
    /\ last.called = <<current, select_pos>>
    /\ ChildCount >= 2 /\ select_pos = ChildCount - 1
    /\ \A k \in 0..(ChildCount - 1) :
           nodes[nodes[current].children[k + 1]].selected = (k = select_pos)

\* C10: after a select input on a child of a Single Selection node, at most one
\* of its children is selected.
C10_AtMostOneSelected ==
    (/\ enabled
     /\ nodes[current].mode = APPTREE_MODE_SINGLE_SELECTION
     /\ ChildInRange(current, select_pos)
     /\ last.op = "handle_input" /\ last.arg = Keys.select /\ last.ret = 0)
    => Cardinality({c \in ChildrenOf(current) : nodes[c].selected}) <= 1

\* The child of the active node under the cursor (select_pos is in range).
CursorChild == nodes[current].children[select_pos + 1]

\* A select input is handled with select_pos on a child of the active node.
SelectOnChild ==
    /\ enabled
    /\ ChildInRange(current, select_pos)
    /\ InputHandled(Keys.select)

\* C11: with a Multi Selection active node, a select input on child i changes
\* the selected flag of no other node, and after two select inputs on child i
\* in a row its selected flag is what it was before them.
C11_MultiToggle ==
    /\ [][(SelectOnChild /\ nodes[current].mode = APPTREE_MODE_MULTI_SELECTION)
            => \A n \in Handles :
                   n # CursorChild => nodes'[n].selected = nodes[n].selected]_vars
    /\ []((/\ enabled
           /\ nodes[current].mode = APPTREE_MODE_MULTI_SELECTION
           /\ ChildInRange(current, select_pos)
           /\ run.key = Keys.select /\ run.len = 2)
          => nodes[CursorChild].selected = run.flag)

\* C11 witness: under a Multi Selection node with two children, the second of
\* two selects in a row on a child created selected has called its callback.
C11_Witness ==
    /\ enabled
    /\ nodes[current].mode = APPTREE_MODE_MULTI_SELECTION
    /\ ChildCount >= 2 /\ ChildInRange(current, select_pos)
    /\ run.key = Keys.select /\ run.len = 2 /\ run.flag
    /\ last.called = <<current, select_pos>>
    /\ nodes[CursorChild].selected

\* The step changes no selected flag.
SelectedUnchanged ==
    \A n \in Handles : nodes'[n].selected = nodes[n].selected

\* C12: a select input with select_pos on a child that has children makes that
\* child the active node, sets select_pos and frame_pos to 0 and prints the
\* menu, calls no callback and changes no selected flag.
C12_Descend ==
    [][(SelectOnChild /\ nodes[CursorChild].num_child > 0)
         => /\ current' = CursorChild
            /\ select_pos' = 0 /\ frame_pos' = 0
            /\ last'.renders = 1
            /\ last'.called = <<>>
            /\ SelectedUnchanged]_vars

\* C12 witness: a select with select_pos 1 has entered the second child of a
\* node, a child created selected and with a callback.
C12_Witness ==
    /\ enabled
    /\ last.op = "handle_input" /\ last.arg = Keys.select
    /\ run.key = Keys.select /\ run.sel = 1
    /\ nodes[run.node].num_child >= 2
    /\ current = nodes[run.node].children[2]
    /\ select_pos = 0 /\ frame_pos = 0
    /\ last.renders = 1 /\ last.called = <<>>
    /\ nodes[current].function /\ nodes[current].selected

\* C13: a select input with select_pos on a child that has no children and has
\* a callback calls the callback once, with the active node and select_pos,
\* and the callback sees the selected flags as they were before the input; a
\* select on a child that has children updates no selected flag.
C13_CallbackThenUpdate ==
    /\ [][(SelectOnChild /\ nodes[CursorChild].num_child = 0
                         /\ nodes[CursorChild].function)
            => /\ last'.called = <<current, select_pos>>
               /\ last'.seen = SelectedFlags(nodes, current)]_vars
    /\ [][(SelectOnChild /\ nodes[CursorChild].num_child > 0)
            => (last'.called = <<>> /\ SelectedUnchanged)]_vars

\* C13 witness: under a Single Selection node a select called the callback of
\* the child under the cursor, and the flags the callback saw were changed
\* afterwards.
C13_Witness ==
    /\ enabled
    /\ nodes[current].mode = APPTREE_MODE_SINGLE_SELECTION
    /\ ChildInRange(current, select_pos)
    /\ last.op = "handle_input" /\ last.arg = Keys.select
    /\ last.called = <<current, select_pos>>
    /\ last.seen # SelectedFlags(nodes, current)

\* The step changes nothing of the engine and prints nothing.
NothingDone ==
    /\ UNCHANGED <<nodes, control>>
    /\ last'.renders = 0

\* C14: a back input with the master active changes nothing and prints
\* nothing; with another node active it makes that node's parent the active
\* node, sets select_pos and frame_pos to 0 and prints the menu.
C14_Back ==
    [][(enabled /\ InputHandled(Keys.back))
         => IF current = master
            THEN NothingDone
            ELSE /\ current' = nodes[current].parent
                 /\ select_pos' = 0 /\ frame_pos' = 0
                 /\ last'.renders = 1]_vars

\* C14 witness: a back input two levels below the master has entered the
\* parent, which is not the master.
C14_Witness ==
    /\ enabled
    /\ last.op = "handle_input" /\ last.arg = Keys.back
    /\ run.key = Keys.back
    /\ current # master /\ current = nodes[run.node].parent
    /\ select_pos = 0 /\ frame_pos = 0 /\ last.renders = 1

\* C15: a home input with the master active changes nothing and prints
\* nothing; with any other node active it makes the master the active node,
\* sets select_pos and frame_pos to 0 and prints the menu.
C15_Home ==
    [][(enabled /\ InputHandled(Keys.home))
         => IF current = master
            THEN NothingDone
            ELSE /\ current' = master
                 /\ select_pos' = 0 /\ frame_pos' = 0
                 /\ last'.renders = 1]_vars

\* C15 witness: a home input two levels below the master has entered the
\* master.
C15_Witness ==
    /\ enabled
    /\ last.op = "handle_input" /\ last.arg = Keys.home
    /\ run.key = Keys.home
    /\ run.node # master /\ nodes[run.node].parent # master
    /\ current = master
    /\ select_pos = 0 /\ frame_pos = 0 /\ last.renders = 1

\* The five keys of the key bindings.
BoundKeys == {Keys.up, Keys.down, Keys.select, Keys.back, Keys.home}

\* C16: apptree_handle_input returns -1, changes nothing and prints nothing
\* when the engine is not enabled, and when it is enabled and apptree_read
\* delivers no input; otherwise it returns 0.
C16_InputPump ==
    [][(last'.op = "handle_input")
         => IF ~enabled \/ last'.arg = "none"
            THEN last'.ret = -1 /\ NothingDone
            ELSE last'.ret = 0]_vars

\* C16 witness: enabled, with children to move over, apptree_handle_input found
\* no input and returned -1.
C16_Witness ==
    /\ enabled /\ ChildCount > 0
    /\ last.op = "handle_input" /\ last.arg = "none"
    /\ last.ret = -1 /\ last.renders = 0

\* C17: while enabled, an input that is none of the five bound keys makes
\* apptree_handle_input return 0, change nothing and print nothing.
C17_UnboundKeyIgnored ==
    [][(enabled /\ last'.op = "handle_input"
                /\ last'.arg \notin BoundKeys \cup {"none"})
         => (last'.ret = 0 /\ NothingDone)]_vars

\* C17 witness: with select_pos on the second child, an input that is no
\* bound key was handled.
C17_Witness ==
    /\ enabled
    /\ last.op = "handle_input" /\ last.arg = "x"
    /\ last.ret = 0 /\ last.renders = 0
    /\ select_pos = 1 /\ ChildCount >= 2

\* C18: a select input with select_pos on a child that has no children and no
\* callback changes nothing and prints nothing, whatever the mode of the
\* active node, and apptree_handle_input returns 0.
C18_SelectWithoutCallback ==
    [][(SelectOnChild /\ nodes[CursorChild].num_child = 0
                      /\ ~nodes[CursorChild].function)
         => (last'.ret = 0 /\ NothingDone)]_vars

\* C18 witness: under a Single Selection node with two children, a select on
\* an unselected child without a callback was handled; the other is selected.
C18_Witness ==
    /\ enabled
    /\ nodes[current].mode = APPTREE_MODE_SINGLE_SELECTION
    /\ ChildCount = 2 /\ ChildInRange(current, select_pos)
    /\ last.op = "handle_input" /\ last.arg = Keys.select
    /\ last.ret = 0 /\ last.renders = 0
    /\ ~nodes[CursorChild].function /\ ~nodes[CursorChild].selected
    /\ \E c \in ChildrenOf(current) : nodes[c].selected

\* C19: while enabled, an input changes no node but for its selected flag, and
\* adds none; a selected flag changes only by a select input, only of a child
\* of the active node, and only if the mode of the active node is not Simple.
C19_OnlyFlagsChange ==
    [][(enabled /\ last'.op = "handle_input")
         => /\ Len(nodes') = Len(nodes)
            /\ \A n \in Handles :
                 /\ [nodes'[n] EXCEPT !.selected = nodes[n].selected] = nodes[n]
                 /\ nodes'[n].selected # nodes[n].selected
                      => /\ last'.arg = Keys.select
                         /\ n \in ChildrenOf(current)
                         /\ nodes[current].mode # APPTREE_MODE_SIMPLE]_vars

\* C19 witness: a select under a Multi Selection node has changed a selected
\* flag.
C19_Witness ==
    /\ enabled
    /\ nodes[current].mode = APPTREE_MODE_MULTI_SELECTION
    /\ last.op = "handle_input" /\ last.arg = Keys.select
    /\ last.called = <<current, select_pos>>
    /\ last.seen # SelectedFlags(nodes, current)

\* C20: a call whose realloc of the picture failed returns -1 and does not
\* print the menu.
C20_AllocFailureReported ==
    last.failed => (last.ret = -1 /\ last.renders = 0)

\* The lines of the frame the last call printed: every handler and
\* apptree_enable print the menu as their last step.
FramePrinted ==
    apptree_print_frame(current, picture, picture_height, frame_pos, select_pos)

\* The marker a line for child i of the active node is to carry.
MarkerOf(i) ==
    IF nodes[current].mode = APPTREE_MODE_SIMPLE THEN "none"
    ELSE IF nodes[nodes[current].children[i + 1]].selected THEN "[*]"
    ELSE "[ ]"

\* C21: a printed frame has FRAME_HEIGHT lines; each of its child lines is for
\* a child of the active node and carries [*] or [ ] by that child's selected
\* flag if the mode of the active node is not Simple, and no marker if it is.
C21_FrameRows ==
    (enabled /\ last.renders = 1) =>
        /\ Len(FramePrinted) = frame_height
        /\ \A k \in 1..Len(FramePrinted) :
               FramePrinted[k].row = "child" =>
                   /\ ChildInRange(current, FramePrinted[k].index)
                   /\ FramePrinted[k].marker = MarkerOf(FramePrinted[k].index)

\* C22: while enabled with an active node that has a child, select_pos is
\* within the frame, frame_pos <= select_pos < frame_pos + FRAME_HEIGHT, and a
\* printed frame has the line that carries the arrow.
C22_CursorInWindow ==
    (enabled /\ ChildCount >= 1) =>
        /\ frame_pos <= select_pos
        /\ select_pos < frame_pos + frame_height
        /\ last.renders = 1 =>
               \E k \in 1..Len(FramePrinted) :
                   FramePrinted[k].row = "child" /\ FramePrinted[k].arrow

\* C23: apptree_enable and apptree_handle_input look up no child and read no
\* picture entry outside the children of the node indexed, and while enabled
\* picture_height is the child count of the active node.
C23_LookupsInRange ==
    /\ last.op \in {"enable", "handle_input"} => ~last.ub
    /\ enabled => picture_height = ChildCount

====
